---- MODULE Spec2Model ----
(***************************************************************************)
(* The Zoom call-log ETL job (Engine.py): Extract -> Transform -> Load,    *)
(* with the run log flushed at the end.  One run is one process; the       *)
(* warehouse (destination table) outlives the runs.                        *)
(***************************************************************************)
EXTENDS Integers, Sequences, FiniteSets, Bags, TLC

VARIABLES
    pc,              \* position of the Engine.py script
    exc,             \* the uncaught exception on its way to sys.excepthook
    today,           \* environment: the calendar date, <<year, month, day>>
    period,          \* data_config['extract']['period']
    num_periods,     \* data_config['extract']['num_periods']
    page_size,       \* data_config['extract']['page_size']
    start_date,      \* get_date_range's start date (<<>> until computed)
    source,          \* provider: the call records of the window (timestamps)
    provider_ok,     \* provider: every non-final page carries next_page_token
    token_sent,      \* whether generate_token has run in this process
    url_token,       \* next_page_token of the request url (<<>>: none)
    pages,           \* get_call_logs: pages
    counter,         \* get_call_logs: counter
    records,         \* get_call_logs: total_records of the first response
    log_dicts,       \* get_call_logs: the accumulated call_logs batches
    served,          \* provider: the page numbers it served, in order
    missing_at,      \* provider: the response (by number) it sent without a
                     \* next_page_token key before the last page; 0: none
    now,             \* the clock, in ticks
    calls,           \* RateLimiter.calls, the limiter's deque of timestamps
    dispatched,      \* the times at which session.get was dispatched
    blocked,         \* how many calls the limiter has delayed
    extracted_data,  \* Extract.extracted_data / call_df (rows: timestamps)
    has_columns,     \* whether call_df has a date_time column
    csv_exists,      \* the local extract artifact at download_path
    containers,      \* warehouse: WAREHOUSE, DATABASE and SCHEMA exist
    table_exists,    \* warehouse: ZOOM_CALL_LOGS exists
    table,           \* warehouse: the rows of ZOOM_CALL_LOGS (bag of timestamps)
    open_conns,      \* open warehouse connections of this process
    max_datetime,    \* transform_call_log: the watermark (<<>>: not read / None)
    table_at_read,   \* the table as it was when the watermark was read
    call_df,         \* the Transformer's output
    appended,        \* the rows this run appended to the table
    log,             \* error-level records this process wrote to the run log
    handlers_open,   \* the logger still has its file handler
    ops,             \* the effects of this process outside itself, in order:
                     \* the artifact written, the statements sent to Snowflake,
                     \* the file removed
    columns,         \* the columns of call_df, each a name and a pandas dtype
    datetime_columns, \* data_config['load']['datetime_columns']
    create_str,      \* get_create_string's statement, as tokens (<<>>: none)
    stage,           \* warehouse: the dates of the partitions in the stage
    days_to_stage,   \* data_config['load']['days_to_stage']
    remove_fails,    \* warehouse: the partitions whose remove command fails
    removes,         \* the partitions this process issued a remove for
    rerun_of         \* "loaded" / "failed": this process runs again on the
                     \* source of a run whose load succeeded / did not; "none"

vars == << pc, exc, today, period, num_periods, page_size, start_date, source,
           provider_ok, token_sent, url_token, pages, counter, records,
           log_dicts, served, missing_at, now, calls, dispatched, blocked, extracted_data,
           has_columns, csv_exists, containers, table_exists, table,
           open_conns, max_datetime, table_at_read, call_df, appended, log,
           handlers_open, ops, columns, datetime_columns, create_str, stage,
           days_to_stage, remove_fails, removes, rerun_of >>

----------------------------------------------------------------------------
(* Bounds of the model.                                                    *)

\* timestamps of call records range over 1..MaxTime
MaxTime == 3
\* a window holds at most MaxRecords records with arbitrary timestamps
MaxRecords == 2
\* and bursts of up to MaxBurst records, to drive the rate limiter
MaxBurst == 7
\* page sizes 1..MaxSmallPage besides the provider's maximum and one above it
MaxSmallPage == 2
\* a request takes 0..MaxLatency ticks
MaxLatency == 1
\* ticks per second
TicksPerSecond == 2
\* num_periods ranges over 1..MaxPeriods (and FarPeriods)
MaxPeriods == 14
\* total_records ranges over 0..MaxTotal where page counts are computed
MaxTotal == 300

\* a record table has at most MaxColumns columns
MaxColumns == 2

\* the stage holds partitions of today and of up to MaxAge days before it
MaxAge == 3

\* page sizes down to -MaxNegative where the size check alone decides
MaxNegative == 3

\* the provider holds at most MaxArrived records when records keep arriving
MaxArrived == 3

(* Program constants.                                                      *)

\* Extract.py line 224: page_size may not exceed 300
MAX_PAGE_SIZE == 300
\* Extract.py line 177: RateLimiter(max_calls=5, period=1)
max_calls == 5
limiter_period == 1

----------------------------------------------------------------------------
(* Calendar arithmetic of get_date_range: datetime and relativedelta.      *)

\* datetime.MINYEAR .. datetime.MAXYEAR are the years a datetime can hold
InYearRange(y) == y >= 1 /\ y <= 9999

IsLeap(y) == y % 4 = 0 /\ (y % 100 # 0 \/ y % 400 = 0)

DaysInMonth(y, m) ==
    IF m = 2 THEN (IF IsLeap(y) THEN 29 ELSE 28)
    ELSE IF m \in {4, 6, 9, 11} THEN 30 ELSE 31

DaysBeforeMonth(y, m) ==
    << 0, 31, 59, 90, 120, 151, 181, 212, 243, 273, 304, 334 >>[m]
      + (IF m > 2 /\ IsLeap(y) THEN 1 ELSE 0)

DaysBeforeYear(y) ==
    (y - 1) * 365 + ((y - 1) \div 4) - ((y - 1) \div 100) + ((y - 1) \div 400)

\* date.toordinal
ToOrdinal(dt) == DaysBeforeYear(dt[1]) + DaysBeforeMonth(dt[1], dt[2]) + dt[3]

\* date.fromordinal, for n >= 1
FromOrdinal(n) ==
    LET n0   == n - 1
        n400 == n0 \div 146097
        r400 == n0 % 146097
        n100 == r400 \div 36524
        r100 == r400 % 36524
        n4   == r100 \div 1461
        r4   == r100 % 1461
        n1   == r4 \div 365
        r1   == r4 % 365
        year == n400 * 400 + 1 + n100 * 100 + n4 * 4 + n1
        leap == n1 = 3 /\ (n4 # 24 \/ n100 = 3)
        m0   == (r1 + 50) \div 32
        p0   == DaysBeforeMonth(2001, m0) + (IF m0 > 2 /\ leap THEN 1 ELSE 0)
        month == IF p0 > r1 THEN m0 - 1 ELSE m0
        prec == IF p0 > r1
                THEN p0 - (<< 31, 28, 31, 30, 31, 30, 31, 31, 30, 31, 30, 31 >>[m0 - 1]
                           + (IF m0 - 1 = 2 /\ leap THEN 1 ELSE 0))
                ELSE p0
    IN  IF n1 = 4 \/ n100 = 4 THEN << year - 1, 12, 31 >>
        ELSE << year, month, r1 - prec + 1 >>

\* strftime('%Y-%m-%d'): the date as the digits YYYYMMDD
Strftime(dt) == dt[1] * 10000 + dt[2] * 100 + dt[3]

\* strptime(s, '%Y-%m-%d')
Strptime(s) == << s \div 10000, (s \div 100) % 100, s % 100 >>

\* dt - relativedelta(years=.., months=.., days=..): the constructor folds
\* months beyond 11 into years; the subtraction negates the delta, moves the
\* year and month, clips the day to the month's length, then moves by days.
\* The result is [err, date]: a year outside datetime's range raises.
MinusRelativeDelta(dt, years, months, days) ==
    LET yrs  == years + (months \div 12)
        mths == months % 12
        m1   == dt[2] - mths
        year == IF mths # 0 /\ m1 < 1 THEN dt[1] - yrs - 1 ELSE dt[1] - yrs
        month == IF mths # 0 /\ m1 < 1 THEN m1 + 12 ELSE m1
    IN  IF ~InYearRange(year)
        THEN [err |-> "ValueError", date |-> dt]
        ELSE LET day == IF DaysInMonth(year, month) < dt[3]
                        THEN DaysInMonth(year, month) ELSE dt[3]
                 ord == ToOrdinal(<< year, month, day >>) - days
             IN  IF ord < 1
                 THEN [err |-> "OverflowError", date |-> dt]
                 ELSE [err |-> "", date |-> FromOrdinal(ord)]

Extract_get_date_range_mut(td, per, n) ==
    LET t == Strptime(Strftime(td))
    IN  IF per = "day"
        THEN LET r == MinusRelativeDelta(t, 0, 0, n)
             IN  [err |-> r.err, start |-> Strftime(r.date)]
        ELSE IF per = "month"
        THEN LET r == MinusRelativeDelta(t, 0, n, 0)
             IN  [err |-> r.err, start |-> Strftime(<< r.date[1], r.date[2], 1 >>)]
        ELSE IF per = "year"
        THEN LET r == MinusRelativeDelta(t, n, 0, 0)
             IN  [err |-> r.err, start |-> Strftime(<< r.date[1], 1, 1 >>)]
        ELSE [err |-> "ValueError", start |-> 0]

Extract_get_date_range_lax(td, per, n) ==
    LET r == MinusRelativeDelta(Strptime(Strftime(td)), 0, 0, n - 1)
    IN  [err |-> r.err, start |-> Strftime(r.date)]

\* Extract.get_date_range with use_date_range = False: the start date as
\* YYYYMMDD, or the exception raised
Extract_get_date_range(td, per, n) ==
    LET t == Strptime(Strftime(td))
    IN  IF per = "day"
        THEN LET r == MinusRelativeDelta(t, 0, 0, n - 1)
             IN  [err |-> r.err, start |-> Strftime(r.date)]
        ELSE IF per = "month"
        THEN LET r == MinusRelativeDelta(t, 0, n - 1, 0)
             IN  [err |-> r.err, start |-> Strftime(<< r.date[1], r.date[2], 1 >>)]
        ELSE IF per = "year"
        THEN LET r == MinusRelativeDelta(t, n - 1, 0, 0)
             IN  [err |-> r.err, start |-> Strftime(<< r.date[1], 1, 1 >>)]
        ELSE [err |-> "ValueError", start |-> 0]


----------------------------------------------------------------------------
(* Record tables are sequences of rows; a row is its date_time, a number   *)
(* in 1..MaxTime (to_datetime and str keep the order of timestamps).       *)

Min(a, b) == IF a <= b THEN a ELSE b

RECURSIVE Flatten(_)
\* [call_dict for sublist in call_list for call_dict in sublist]
Flatten(ss) == IF ss = << >> THEN << >> ELSE Head(ss) \o Flatten(Tail(ss))

RECURSIVE SeqToBag(_)
SeqToBag(s) == IF s = << >> THEN EmptyBag
               ELSE SetToBag({Head(s)}) (+) SeqToBag(Tail(s))

RECURSIVE SeqsUpTo(_, _)
\* the sequences over S of length at most n
SeqsUpTo(S, n) ==
    IF n = 0 THEN { << >> }
    ELSE LET shorter == SeqsUpTo(S, n - 1)
         IN  shorter \cup { Append(q, x) : q \in shorter, x \in S }

Times == 1..MaxTime

\* a burst of n records
Burst(n) == [i \in 1..n |-> ((i - 1) % MaxTime) + 1]

\* what the provider may hold for a window
Sources == SeqsUpTo(Times, MaxRecords)

\* longer windows, for get_call_logs alone
FetchSources == Sources \cup { Burst(n) : n \in 1..MaxBurst }

PageSizes == (1..MaxSmallPage) \cup { MAX_PAGE_SIZE, MAX_PAGE_SIZE + 1 }

Periods == { "day", "month", "year", "week" }

----------------------------------------------------------------------------
(* The provider API: GET /v2/phone/call_logs.                              *)

\* the number of pages the provider cuts src into
ProviderPages(src, ps) == (Len(src) + ps - 1) \div ps

\* the page a request asks for: no token, or an empty one, is the first page
RequestedPage(tok) == IF tok = << >> THEN 1 ELSE tok[1]

\* response.json() for page k; has_token: the body has a next_page_token key.
\* The last page's token is the empty string, << >>.
Response(src, ps, k, has_token) ==
    [ total_records   |-> Len(src),
      call_logs       |-> SubSeq(src, (k - 1) * ps + 1, Min(k * ps, Len(src))),
      has_token       |-> has_token,
      next_page_token |-> IF k < ProviderPages(src, ps) THEN << k + 1 >> ELSE << >> ]

----------------------------------------------------------------------------
(* Extract.                                                                *)

\* Python's // and % (floor division, the remainder has the divisor's sign)
PyFloorDiv(a, b) == IF b > 0 THEN a \div b ELSE (0 - a) \div (0 - b)
PyMod(a, b) == a - b * PyFloorDiv(a, b)

is_positive_mut(n) == IF n > 1 THEN 1 ELSE 0

\* Extract.is_positive
is_positive(n) == IF n > 0 THEN 1 ELSE 0

\* get_call_logs line 262: the number of pages to request
PageCount(recs, ps) == PyFloorDiv(recs, ps) + is_positive(PyMod(recs, ps))

page_size_too_big_mut(ps) == ps > MAX_PAGE_SIZE + 1

\* get_call_logs line 224
page_size_too_big(ps) == ps > MAX_PAGE_SIZE

----------------------------------------------------------------------------
(* RateLimiter(max_calls=5, period=1) around limited_request_get.          *)

Period == limiter_period * TicksPerSecond

\* RateLimiter._timespan
Timespan(cs) == cs[Len(cs)] - cs[1]

\* RateLimiter.__enter__: the time at which the wrapped call is let through
LimiterEnter(cs, t) ==
    IF Len(cs) >= max_calls /\ (t + Period - Timespan(cs)) > t
    THEN t + Period - Timespan(cs)
    ELSE t

RECURSIVE PopOld(_)
\* RateLimiter.__exit__: drop the oldest calls while the deque spans a period
PopOld(cs) == IF Timespan(cs) >= Period THEN PopOld(Tail(cs)) ELSE cs

\* RateLimiter.__exit__
LimiterExit(cs, t) == PopOld(Append(cs, t))


----------------------------------------------------------------------------
(* Load.get_create_string.  A record table is seen here by its columns, a  *)
(* sequence of [name, dtype] with distinct names; a statement is the       *)
(* sequence of its tokens.                                                 *)

\* get_create_string lines 125-131
dtype_conversions ==
    ("object" :> "string") @@ ("int64" :> "integer") @@ ("Int64" :> "integer")
    @@ ("datetime64[ns]" :> "TIMESTAMP_NTZ(9))") @@ ("float64" :> "REAL")
    @@ ("boolean" :> "BOOLEAN") @@ ("category" :> "string")

\* col.upper().replace(' ', '_') (line 143) and str(x).upper()
\* (Transform.py line 82), on the names the model uses
Upper ==
    ("date_time" :> "DATE_TIME") @@ ("date time" :> "DATE_TIME")
    @@ ("DATE_TIME" :> "DATE_TIME") @@ ("answer time" :> "ANSWER_TIME")
    @@ ("record_id" :> "RECORD_ID") @@ ("duration" :> "DURATION")

RECURSIVE DictSet(_, _, _)
\* d[k] = v on a dict kept as its items in insertion order: an existing key
\* keeps its place, a new key goes to the end
DictSet(d, k, v) ==
    IF d = << >> THEN << << k, v >> >>
    ELSE IF Head(d)[1] = k THEN << << k, v >> >> \o Tail(d)
    ELSE << Head(d) >> \o DictSet(Tail(d), k, v)

RECURSIVE ForceDatetime(_, _)
\* get_create_string lines 142-143
ForceDatetime(d, dt_cols) ==
    IF dt_cols = << >> THEN d
    ELSE ForceDatetime(DictSet(d, Upper[Head(dt_cols)], "TIMESTAMP_NTZ(9)"),
                       Tail(dt_cols))

RECURSIVE JoinItems(_)
\* ', '.join([f'"{key}" {value}' ...]) (line 147)
JoinItems(d) ==
    IF d = << >> THEN << >>
    ELSE IF Len(d) = 1 THEN << d[1][1], d[1][2] >>
    ELSE << d[1][1], d[1][2], "," >> \o JoinItems(Tail(d))

get_create_string_mut(table_name, cols, dt_cols) ==
    LET known(c) == IF c.dtype \in DOMAIN dtype_conversions
                    THEN dtype_conversions[c.dtype] ELSE "string"
        dtypes == [i \in 1..Len(cols) |-> << cols[i].name, known(cols[i]) >>]
    IN  [err  |-> "",
         stmt |-> << "CREATE TABLE IF NOT EXISTS", table_name, "(" >>
                    \o JoinItems(ForceDatetime(dtypes, dt_cols)) \o << ")" >>]

\* Load.get_create_string (lines 124-149): [err, stmt], the exception it
\* raises or the statement it returns
get_create_string(table_name, cols, dt_cols) ==
    IF \E i \in 1..Len(cols) : cols[i].dtype \notin DOMAIN dtype_conversions
    THEN [err |-> "KeyError", stmt |-> << >>]
    ELSE LET dtypes == [i \in 1..Len(cols) |->
                          << cols[i].name, dtype_conversions[cols[i].dtype] >>]
         IN  [err  |-> "",
              stmt |-> << "CREATE TABLE IF NOT EXISTS", table_name, "(" >>
                         \o JoinItems(ForceDatetime(dtypes, dt_cols)) \o << ")" >>]

\* the parentheses a token opens and closes
Opens(tok) == IF tok \in { "(", "TIMESTAMP_NTZ(9)", "TIMESTAMP_NTZ(9))" } THEN 1 ELSE 0
Closes(tok) == IF tok = "TIMESTAMP_NTZ(9))" THEN 2
               ELSE IF tok \in { ")", "TIMESTAMP_NTZ(9)" } THEN 1 ELSE 0

RECURSIVE Depth(_)
\* the parentheses left open at the end of a statement
Depth(stmt) == IF stmt = << >> THEN 0
               ELSE Depth(SubSeq(stmt, 1, Len(stmt) - 1))
                      + Opens(stmt[Len(stmt)]) - Closes(stmt[Len(stmt)])

\* cur.execute(create_str) (Load.py line 87): Snowflake compiles the
\* statement; one whose parentheses do not match is a syntax error
SyntaxError(stmt) == Depth(stmt) # 0

----------------------------------------------------------------------------
(* Load.load_source_data: the partitions of the stage are named by their   *)
(* date, YYYY-MM-DD, kept here as the digits YYYYMMDD.                     *)

\* line 192: (pd.to_datetime(today) - timedelta(days=days_to_stage)).strftime(..)
n_days(td, days) ==
    Strftime(FromOrdinal(ToOrdinal(Strptime(Strftime(td))) - days))

\* line 194: dates[dates <= n_days], a comparison of dates
old_dates(parts, td, days) ==
    { p \in parts :
        ToOrdinal(Strptime(p)) <= ToOrdinal(Strptime(n_days(td, days))) }

\* the orders in which list @stage may report the partitions of S
Orders(S) ==
    { f \in [1..Cardinality(S) -> S] :
        \A i, j \in 1..Cardinality(S) : i # j => f[i] # f[j] }

\* lines 197-198: the remove commands issued, in order; the first one that
\* fails raises out of the loop
issued(order, fails) ==
    IF \E i \in 1..Len(order) : order[i] \in fails
    THEN SubSeq(order, 1, CHOOSE i \in 1..Len(order) :
                            /\ order[i] \in fails
                            /\ \A j \in 1..(i - 1) : order[j] \notin fails)
    ELSE order

\* the partitions a stage may hold on the day td
Partitions(td) ==
    { Strftime(FromOrdinal(ToOrdinal(td) - a)) : a \in 0..MaxAge }

write_pandas_mut(df) == { FALSE }

\* write_pandas (Load.py lines 93-94): the success flags it may report; for
\* an empty table it inserts nothing and reports success
write_pandas(df) == IF df = << >> THEN { TRUE } ELSE BOOLEAN

\* the names of the columns of the model, and the pandas dtypes they may
\* have ("bool" has no entry in dtype_conversions)
Names == { "DATE_TIME", "RECORD_ID", "DURATION" }
Dtypes == { "object", "int64", "datetime64[ns]", "bool" }

\* the record tables of at most MaxColumns columns
ColumnTables ==
    { cs \in UNION { [1..n -> [name : Names, dtype : Dtypes]] : n \in 1..MaxColumns } :
        \A i, j \in 1..Len(cs) : i # j => cs[i].name # cs[j].name }

\* the configured lists of datetime columns stored as text
DatetimeColumnLists == { << >>, << "date_time" >>, << "date time", "answer time" >> }

\* the table and the configuration of the runs of the pipeline
MainColumns == << [name |-> "DATE_TIME", dtype |-> "object"],
                  [name |-> "RECORD_ID", dtype |-> "object"] >>
MainDatetimeColumns == << "date_time" >>

----------------------------------------------------------------------------
(* The state machine.                                                      *)

envVars   == << today, period, num_periods, page_size, source, provider_ok >>
fetchVars == << token_sent, url_token, pages, counter, records, log_dicts,
               served, missing_at >>
limVars   == << now, calls, dispatched, blocked >>
dfVars    == << extracted_data, has_columns >>
whVars    == << containers, table_exists, table >>
xfVars    == << max_datetime, table_at_read, call_df, appended >>
ldVars    == << columns, datetime_columns, create_str >>
stVars    == << stage, days_to_stage, remove_fails, removes >>

\* the date of the runs, and the rolling periods they are configured with
MainToday == << 2024, 3, 15 >>
MainPeriods == { "day", "week" }

\* the warehouse before the first run: no containers, no table, an empty
\* table, or a table holding one row
InitWarehouses ==
    { [containers |-> FALSE, table_exists |-> FALSE, table |-> EmptyBag],
      [containers |-> TRUE, table_exists |-> FALSE, table |-> EmptyBag],
      [containers |-> TRUE, table_exists |-> TRUE, table |-> EmptyBag] }
    \cup { [containers |-> TRUE, table_exists |-> TRUE, table |-> SetToBag({t})]
           : t \in Times }

\* a fresh process: Engine.py lines 11-23, before extract_data is called
InitLocals ==
    /\ exc = ""
    /\ start_date = << >>
    /\ token_sent = FALSE
    /\ url_token = << >>
    /\ counter = 0
    /\ log_dicts = << >>
    /\ served = << >>
    /\ missing_at = 0
    /\ now = 0
    /\ calls = << >>
    /\ dispatched = << >>
    /\ blocked = 0
    /\ extracted_data = << >>
    /\ has_columns = FALSE
    /\ open_conns = 0
    /\ max_datetime = << >>
    /\ table_at_read = EmptyBag
    /\ call_df = << >>
    /\ appended = << >>
    /\ log = << >>
    /\ handlers_open = TRUE
    /\ ops = << >>
    /\ create_str = << >>
    /\ removes = << >>
    /\ rerun_of = "none"

\* data_config['load'] of the runs of the pipeline, and an empty stage
MainLoadConfig ==
    /\ columns = MainColumns
    /\ datetime_columns = MainDatetimeColumns
    /\ days_to_stage = 1
    /\ remove_fails = { }
    /\ stage = { }

InitProcess ==
    /\ InitLocals
    /\ MainLoadConfig
    /\ pc = "get_date_range"
    /\ pages = 0
    /\ records = 0

Init ==
    /\ InitProcess
    /\ today = MainToday
    /\ period \in MainPeriods
    /\ num_periods = 1
    /\ page_size \in PageSizes
    /\ source \in Sources
    /\ provider_ok \in BOOLEAN
    /\ csv_exists = FALSE
    /\ \E w \in InitWarehouses :
         /\ containers = w.containers
         /\ table_exists = w.table_exists
         /\ table = w.table

Raise_mut(e) == pc' = "load_log" /\ exc' = e

\* an exception leaves the script: sys.excepthook will be called with it
Raise(e) == pc' = "excepthook" /\ exc' = e

\* extract_data line 81: get_date_range(use_date_range=False)
GetDateRange ==
    /\ pc = "get_date_range"
    /\ LET r == Extract_get_date_range(today, period, num_periods)
       IN  IF r.err # ""
           THEN Raise(r.err) /\ UNCHANGED start_date
           ELSE pc' = "get_call_logs" /\ start_date' = << r.start >> /\ UNCHANGED exc
    /\ UNCHANGED << ldVars, stVars, ops, rerun_of,
                    envVars, fetchVars, limVars, dfVars, whVars, xfVars,
                    csv_exists, open_conns, log, handlers_open >>

\* get_call_logs lines 219-236: the token, the size check, the first url
GetCallLogs ==
    /\ pc = "get_call_logs"
    /\ token_sent' = TRUE
    /\ IF page_size_too_big(page_size)
       THEN Raise("ValueError")
       ELSE pc' = "fetch" /\ UNCHANGED exc
    /\ url_token' = << >>
    /\ pages' = 0
    /\ log_dicts' = << >>
    /\ counter' = 0
    /\ UNCHANGED << ldVars, stVars, ops, rerun_of,
                    envVars, start_date, records, served, missing_at, limVars,
                    dfVars, whVars, xfVars, csv_exists, open_conns, log,
                    handlers_open >>

limited_request_get_mut(cs, t) == t

\* limited_request_get, the decorated method: the time at which a call made
\* at t with the limiter's deque cs reaches session.get
limited_request_get(cs, t) == LimiterEnter(cs, t)

reached_last_page_mut(pgs, cnt) == pgs + 1 = cnt

\* get_call_logs line 269: if pages == counter: break
reached_last_page(pgs, cnt) == pgs = cnt

token_lookup_fails_mut(log_dict) == FALSE

\* get_call_logs line 273: log_dict['next_page_token'] raises KeyError when
\* the body has no such key
token_lookup_fails(log_dict) == ~log_dict.has_token

next_url_token_mut(log_dict) == << >>

next_url_token_stale(log_dict) == << 2 >>

\* get_call_logs lines 273-275: the token the next url carries
next_url_token(log_dict) == log_dict.next_page_token

\* get_call_logs lines 240-275: one iteration of the loop
FetchPage ==
    /\ pc = "fetch"
    /\ LET k == RequestedPage(url_token)
       IN  \E d \in 0..MaxLatency,
              has_token \in IF k < ProviderPages(source, page_size)
                            THEN { TRUE, provider_ok } ELSE { TRUE } :
         LET t_d    == limited_request_get(calls, now)
             t_done == t_d + d
             resp   == Response(source, page_size, k, has_token)
             first  == counter + 1 = 1
             recs   == IF first THEN resp.total_records ELSE records
             empty  == first /\ recs = 0
             zero   == first /\ ~empty /\ page_size = 0
             pgs    == IF first /\ ~empty /\ ~zero
                       THEN PageCount(recs, page_size) ELSE pages
             stop   == empty \/ reached_last_page(pgs, counter + 1)
             keyerr == ~stop /\ token_lookup_fails(resp)
         IN  /\ dispatched' = Append(dispatched, t_d)
             /\ blocked' = IF t_d > now THEN blocked + 1 ELSE blocked
             /\ calls' = LimiterExit(calls, t_done)
             /\ now' = t_done
             /\ served' = Append(served, k)
             /\ missing_at' = IF has_token THEN missing_at ELSE counter + 1
             /\ counter' = counter + 1
             /\ records' = recs
             /\ pages' = pgs
             /\ log' = IF empty THEN Append(log, << "no_records", "" >>) ELSE log
             /\ log_dicts' = IF empty \/ zero THEN log_dicts
                             ELSE Append(log_dicts, resp.call_logs)
             /\ url_token' = IF stop \/ zero \/ keyerr THEN url_token
                             ELSE next_url_token(resp)
             /\ IF zero THEN Raise("ZeroDivisionError")
                ELSE IF keyerr THEN Raise("KeyError")
                ELSE IF stop THEN pc' = "assemble" /\ UNCHANGED exc
                ELSE pc' = "fetch" /\ UNCHANGED exc
    /\ UNCHANGED << ldVars, stVars, ops, rerun_of,
                    envVars, start_date, token_sent, dfVars, whVars, xfVars,
                    csv_exists, open_conns, handlers_open >>

\* get_call_logs lines 277-288: the record table of the accumulated batches.
\* The method returns; the session is dropped and the limiter is not used again.
Assemble ==
    /\ pc = "assemble"
    /\ extracted_data' = Flatten(log_dicts)
    /\ has_columns' = (Flatten(log_dicts) # << >>)
    /\ now' = 0
    /\ calls' = << >>
    /\ dispatched' = << >>
    /\ blocked' = 0
    /\ pc' = "summary"
    /\ UNCHANGED << ldVars, stVars, ops, rerun_of,
                    exc, envVars, start_date, fetchVars, whVars, xfVars,
                    csv_exists, open_conns, log, handlers_open >>

\* extract_data lines 86-93: the summary reads df['date_time']
ExtractSummary ==
    /\ pc = "summary"
    /\ IF has_columns
       THEN pc' = "download" /\ UNCHANGED exc
       ELSE Raise("KeyError")
    /\ UNCHANGED << ldVars, stVars, ops, rerun_of,
                    envVars, start_date, fetchVars, limVars, dfVars, whVars,
                    xfVars, csv_exists, open_conns, log, handlers_open >>

\* Engine.py line 28: download_extracted_data writes the csv
Download ==
    /\ pc = "download"
    /\ csv_exists' = TRUE
    /\ ops' = Append(ops, "to_csv")
    /\ pc' = "transform"
    /\ UNCHANGED << ldVars, stVars, rerun_of, exc, envVars, start_date,
                    fetchVars, limVars, dfVars, whVars, xfVars, open_conns,
                    log, handlers_open >>


transform_filter_mut(df, wm) == SelectSeq(df, LAMBDA ts : ts >= wm)

\* transform_call_log line 93: df[to_datetime(df['DATE_TIME']) > str(max_datetime)]
transform_filter(df, wm) == SelectSeq(df, LAMBDA ts : ts > wm)

BagMax_mut(b) == CHOOSE m \in BagToSet(b) : \A x \in BagToSet(b) : x >= m

\* SELECT MAX(DATE_TIME): the largest timestamp of a non-empty table
BagMax(b) == CHOOSE m \in BagToSet(b) : \A x \in BagToSet(b) : x <= m

\* get_max_snowflake_time lines 125-131: USE WAREHOUSE / DATABASE / SCHEMA
\* raises ProgrammingError when the object does not exist
use_fails(ct) == ~ct

select_max_fails_mut(te) == FALSE

\* get_max_snowflake_time lines 133-134: SELECT MAX(DATE_TIME) FROM
\* ZOOM_CALL_LOGS raises ProgrammingError when the table does not exist
select_max_fails(te) == ~te

\* Engine.py line 33: transform_data -> transform_call_log, which reads the
\* watermark through get_max_snowflake_time (lines 114-140; the connection it
\* opens is not closed) and filters the table by it.
Transform ==
    /\ pc = "transform"
    /\ open_conns' = open_conns + 1
    /\ IF use_fails(containers)
       THEN /\ Raise("ProgrammingError")
            /\ ops' = ops \o << "T.connect", "T.use" >>
            /\ UNCHANGED xfVars
       ELSE IF select_max_fails(table_exists)
       THEN /\ Raise("ProgrammingError")
            /\ ops' = ops \o << "T.connect", "T.use", "T.select_max" >>
            /\ UNCHANGED xfVars
       ELSE IF table = EmptyBag
       THEN \* MAX over no rows is None; the comparison with 'None' raises
            /\ Raise("TypeError")
            /\ ops' = ops \o << "T.connect", "T.use", "T.select_max" >>
            /\ table_at_read' = table
            /\ UNCHANGED << max_datetime, call_df, appended >>
       ELSE /\ max_datetime' = << BagMax(table) >>
            /\ ops' = ops \o << "T.connect", "T.use", "T.select_max" >>
            /\ table_at_read' = table
            /\ call_df' = transform_filter(extracted_data, BagMax(table))
            /\ pc' = "load_table"
            /\ UNCHANGED << exc, appended >>
    /\ UNCHANGED << ldVars, stVars, rerun_of, envVars, start_date, fetchVars,
                    limVars, dfVars, whVars, csv_exists, log, handlers_open >>

load_table_record_mut(success) == << >>

\* load_table lines 97-100: the error-level record of the load's outcome
load_table_record(success) ==
    IF success THEN << >> ELSE << << "load_failed", "" >> >>

\* Engine.py line 38: load_table (Load.py lines 64-103)
LoadTable ==
    /\ pc = "load_table"
    /\ containers' = TRUE
    /\ LET r == get_create_string("Zoom_Call_Logs", columns, datetime_columns)
           pre == ops \o << "L.connect", "L.ensure", "L.use" >>
       IN  IF r.err # ""
           THEN \* line 86 raises: nothing is sent, the connection stays open
                /\ Raise(r.err)
                /\ ops' = pre
                /\ open_conns' = open_conns + 1
                /\ UNCHANGED << table_exists, table, appended, log, create_str >>
           ELSE IF SyntaxError(r.stmt)
           THEN \* line 87 raises
                /\ Raise("ProgrammingError")
                /\ ops' = Append(pre, "L.create_table")
                /\ create_str' = r.stmt
                /\ open_conns' = open_conns + 1
                /\ UNCHANGED << table_exists, table, appended, log >>
           ELSE /\ create_str' = r.stmt
                /\ table_exists' = TRUE
                /\ \E success \in write_pandas(call_df) :
                     /\ table' = IF success THEN table (+) SeqToBag(call_df)
                                 ELSE table
                     /\ appended' = IF success THEN call_df ELSE appended
                     /\ log' = log \o load_table_record(success)
                     /\ ops' = pre \o << "L.create_table",
                                         IF success THEN "L.write_pandas -> True"
                                         ELSE "L.write_pandas -> False",
                                         "L.close" >>
                /\ pc' = "load_source_data"
                /\ UNCHANGED << exc, open_conns >>
    /\ UNCHANGED << columns, datetime_columns, stVars, rerun_of, envVars,
                    start_date, fetchVars, limVars, dfVars, max_datetime,
                    table_at_read, call_df, csv_exists, handlers_open >>

\* Engine.py line 39: load_source_data (Load.py lines 160-201)
LoadSourceData ==
    /\ pc = "load_source_data"
    /\ LET pre    == ops \o << "S.connect", "S.use", "S.create_stage",
                               "S.put", "S.list" >>
           staged == stage \cup { Strftime(today) }
           old    == old_dates(staged, today, days_to_stage)
       IN  \E order \in Orders(old) :
             LET cmds == issued(order, remove_fails)
                 fail == cmds # << >> /\ cmds[Len(cmds)] \in remove_fails
                 gone == { cmds[i] : i \in 1..Len(cmds) } \ remove_fails
             IN  /\ removes' = cmds
                 /\ stage' = staged \ gone
                 /\ IF fail
                    THEN /\ Raise("ProgrammingError")
                         /\ ops' = pre \o [i \in 1..Len(cmds) |-> "S.remove"]
                         /\ open_conns' = open_conns + 1
                    ELSE /\ pc' = "load_log"
                         /\ ops' = pre \o [i \in 1..Len(cmds) |-> "S.remove"]
                                       \o << "S.close" >>
                         /\ UNCHANGED << exc, open_conns >>
    /\ UNCHANGED << ldVars, days_to_stage, remove_fails, rerun_of, envVars,
                    start_date, fetchVars, limVars, dfVars, whVars, xfVars,
                    csv_exists, log, handlers_open >>

\* Engine.py line 47: log.load_log (Log.py lines 118-149)
LoadLog ==
    /\ pc = "load_log"
    /\ ops' = ops \o << "G.connect", "G.ensure", "G.use", "G.write_pandas",
                        "G.close" >>
    /\ pc' = "close_log"
    /\ UNCHANGED << ldVars, stVars, rerun_of, exc, envVars, start_date,
                    fetchVars, limVars, dfVars, whVars, xfVars, csv_exists,
                    open_conns, log, handlers_open >>

close_log_mut(h) == h

\* Log.close_log (lines 105-108): every handler is removed and closed;
\* whether the logger has a handler afterwards
close_log(h) == FALSE

\* Engine.py lines 50-53: log.close_log, then os.remove('./ETLLog.log'): the
\* file removed is the run log; the artifact at download_path is not touched
CloseLog ==
    /\ pc = "close_log"
    /\ handlers_open' = close_log(handlers_open)
    /\ ops' = Append(ops, "os.remove ETLLog.log")
    /\ pc' = "done"
    /\ UNCHANGED << ldVars, stVars, rerun_of, exc, envVars, start_date,
                    fetchVars, limVars, dfVars, whVars, xfVars, csv_exists,
                    open_conns, log >>

\* Log.exception_logging, installed as sys.excepthook (Engine.py line 19):
\* one error record with the type, the traceback and the value (lines 87-88),
\* then close_log (line 94).  The interpreter exits after the hook.
ExceptionLogging ==
    /\ pc = "excepthook"
    /\ log' = Append(log, << "exception", exc >>)
    /\ handlers_open' = close_log(handlers_open)
    /\ pc' = "terminated"
    /\ UNCHANGED << ldVars, stVars, ops, rerun_of, exc, envVars, start_date,
                    fetchVars, limVars, dfVars, whVars, xfVars, csv_exists,
                    open_conns >>

\* the memory of a process is gone when it ends
ProcessMemoryGone ==
    /\ exc' = ""
    /\ start_date' = << >>
    /\ token_sent' = FALSE
    /\ url_token' = << >>
    /\ pages' = 0
    /\ counter' = 0
    /\ records' = 0
    /\ log_dicts' = << >>
    /\ served' = << >>
    /\ missing_at' = 0
    /\ now' = 0
    /\ calls' = << >>
    /\ dispatched' = << >>
    /\ blocked' = 0
    /\ extracted_data' = << >>
    /\ has_columns' = FALSE
    /\ open_conns' = 0
    /\ max_datetime' = << >>
    /\ table_at_read' = EmptyBag
    /\ call_df' = << >>
    /\ appended' = << >>
    /\ log' = << >>
    /\ ops' = << >>
    /\ create_str' = << >>
    /\ removes' = << >>

\* the process ends (normally, or after the hook): its memory is gone; the
\* warehouse and the local disk stay
ProcessExit ==
    /\ pc \in { "done", "terminated" }
    /\ pc' = "exited"
    /\ ProcessMemoryGone
    /\ handlers_open' = FALSE
    /\ rerun_of' = "none"
    /\ today' = MainToday
    /\ period' = "day"
    /\ num_periods' = 1
    /\ page_size' = 1
    /\ source' = << >>
    /\ provider_ok' = TRUE
    /\ UNCHANGED << whVars, csv_exists, columns, datetime_columns, stage,
                    days_to_stage, remove_fails >>

\* the scheduler starts the job again: a new process reads data_config.json
\* (Engine.py lines 11-23) and asks the provider for its window
NextRun ==
    /\ pc = "exited"
    /\ pc' = "get_date_range"
    /\ handlers_open' = TRUE
    /\ today' = MainToday
    /\ period' \in MainPeriods
    /\ num_periods' = 1
    /\ page_size' \in PageSizes
    /\ source' \in Sources
    /\ provider_ok' \in BOOLEAN
    /\ UNCHANGED << ldVars, stVars, ops, rerun_of, exc, start_date, fetchVars,
                    limVars, dfVars, whVars, xfVars, csv_exists, open_conns,
                    log >>

\* the scheduler starts the job again while the provider's data and the
\* configuration are what they were: the process ends and a new one starts
Rerun ==
    /\ pc \in { "done", "terminated" }
    /\ rerun_of = "none"
    /\ rerun_of' = IF pc = "done" /\ \E i \in 1..Len(ops) :
                                       ops[i] = "L.write_pandas -> True"
                   THEN "loaded" ELSE "failed"
    /\ pc' = "get_date_range"
    /\ ProcessMemoryGone
    /\ handlers_open' = TRUE
    /\ UNCHANGED << envVars, whVars, csv_exists, columns, datetime_columns,
                    stage, days_to_stage, remove_fails >>

Next ==
    \/ GetDateRange
    \/ GetCallLogs
    \/ FetchPage
    \/ Assemble
    \/ ExtractSummary
    \/ Download
    \/ Transform
    \/ LoadTable
    \/ LoadSourceData
    \/ LoadLog
    \/ CloseLog
    \/ ExceptionLogging
    \/ ProcessExit
    \/ NextRun

Spec == Init /\ [][Next]_vars

----------------------------------------------------------------------------
(* get_call_logs alone, over longer windows.                               *)

InitFetch ==
    /\ InitProcess
    /\ today = MainToday
    /\ period = "day"
    /\ num_periods = 1
    /\ page_size \in PageSizes
    /\ source \in FetchSources
    /\ provider_ok \in BOOLEAN
    /\ csv_exists = FALSE
    /\ containers = TRUE
    /\ table_exists = TRUE
    /\ table = SetToBag({1})

NextFetch ==
    \/ GetDateRange
    \/ GetCallLogs
    \/ FetchPage
    \/ Assemble
    \/ ExtractSummary
    \/ ExceptionLogging

SpecFetch == InitFetch /\ [][NextFetch]_vars

\* the loop of get_call_logs keeps running: the script is one thread that
\* nothing preempts, and the limiter's sleep ends
FairSpecFetch == SpecFetch /\ WF_vars(FetchPage) /\ WF_vars(GetCallLogs)
                   /\ WF_vars(GetDateRange)


----------------------------------------------------------------------------
(* The page count of get_call_logs, over every total_records and page_size. *)

InitPages ==
    /\ InitLocals
    /\ MainLoadConfig
    /\ pc = "page_count"
    /\ pages = 0
    /\ records \in 1..MaxTotal
    /\ page_size \in 1..MAX_PAGE_SIZE
    /\ today = MainToday
    /\ period = "day"
    /\ num_periods = 1
    /\ source = << >>
    /\ provider_ok = TRUE
    /\ csv_exists = FALSE
    /\ containers = TRUE
    /\ table_exists = TRUE
    /\ table = EmptyBag

\* get_call_logs line 262, applied to the total_records of a first response
ComputePages ==
    /\ pc = "page_count"
    /\ pages' = PageCount(records, page_size)
    /\ pc' = "page_count_done"
    /\ UNCHANGED << ldVars, stVars, ops, rerun_of,
                    exc, envVars, start_date, token_sent, url_token, counter,
                    records, log_dicts, served, missing_at, limVars, dfVars,
                    whVars, xfVars, csv_exists, open_conns, log, handlers_open >>

SpecPages == InitPages /\ [][ComputePages]_vars

----------------------------------------------------------------------------
(* The first iteration of the loop of get_call_logs, over every page_size  *)
(* that passes the size check and every total_records >= 1.                *)

\* the page sizes that pass line 224, zero and negative ones among them
CheckedPageSizes == (0 - MaxNegative)..MAX_PAGE_SIZE

InitSizes ==
    /\ InitLocals
    /\ MainLoadConfig
    /\ pc = "first_response"
    /\ pages = 0
    /\ records = 0
    /\ page_size \in CheckedPageSizes
    /\ today = MainToday
    /\ period = "day"
    /\ num_periods = 1
    /\ source = << >>
    /\ provider_ok = TRUE
    /\ csv_exists = FALSE
    /\ containers = TRUE
    /\ table_exists = TRUE
    /\ table = EmptyBag

\* get_call_logs lines 244-270 on the first response, whose body reports
\* total_records >= 1: the counter is incremented, the page count computed
\* (the division raises for page_size 0) and compared with the counter
FirstResponse ==
    /\ pc = "first_response"
    /\ ~page_size_too_big(page_size)
    /\ \E total_records \in 1..MaxTotal :
         /\ counter' = counter + 1
         /\ records' = total_records
         /\ IF page_size = 0
            THEN Raise("ZeroDivisionError") /\ UNCHANGED pages
            ELSE /\ pages' = PageCount(total_records, page_size)
                 /\ pc' = IF reached_last_page(PageCount(total_records, page_size),
                                               counter + 1)
                          THEN "assemble" ELSE "fetch"
                 /\ UNCHANGED exc
    /\ UNCHANGED << ldVars, stVars, ops, rerun_of, envVars, start_date,
                    token_sent, url_token, log_dicts, served, missing_at,
                    limVars, dfVars, whVars, xfVars, csv_exists, open_conns,
                    log, handlers_open >>

NextSizes ==
    \/ FirstResponse
    \/ ExceptionLogging

SpecSizes == InitSizes /\ [][NextSizes]_vars

----------------------------------------------------------------------------
(* get_date_range, over every date of two years and every rolling period.  *)

\* a common year and a leap year
Years == { 2023, 2024 }

Todays == { dt \in Years \X (1..12) \X (1..31) : dt[3] <= DaysInMonth(dt[1], dt[2]) }

\* num_periods that reach back to the first year of the calendar and before it
FarPeriods == { y + 1 : y \in Years }

InitDates ==
    /\ InitProcess
    /\ today \in Todays
    /\ period \in Periods
    /\ num_periods \in (1..MaxPeriods) \cup FarPeriods
    /\ page_size = 1
    /\ source = << >>
    /\ provider_ok = TRUE
    /\ csv_exists = FALSE
    /\ containers = TRUE
    /\ table_exists = TRUE
    /\ table = EmptyBag

SpecDates == InitDates /\ [][GetDateRange]_vars

----------------------------------------------------------------------------
(* One run of the script, from its start to its end.                       *)

NextOnce ==
    \/ GetDateRange
    \/ GetCallLogs
    \/ FetchPage
    \/ Assemble
    \/ ExtractSummary
    \/ Download
    \/ Transform
    \/ LoadTable
    \/ LoadSourceData
    \/ LoadLog
    \/ CloseLog
    \/ ExceptionLogging

\* a run that extracts one record above the table's watermark
InitOneRecord ==
    /\ InitLocals
    /\ pc = "get_date_range"
    /\ pages = 0
    /\ records = 0
    /\ period = "day"
    /\ num_periods = 1
    /\ page_size = 1
    /\ source = << 2 >>
    /\ provider_ok = TRUE
    /\ csv_exists = FALSE
    /\ containers = TRUE
    /\ table_exists = TRUE
    /\ table = SetToBag({ 1 })

\* load_table, over the record tables and the datetime-column lists
InitLoad ==
    /\ InitOneRecord
    /\ today = MainToday
    /\ columns \in ColumnTables
    /\ datetime_columns \in DatetimeColumnLists
    /\ days_to_stage = 1
    /\ remove_fails = { }
    /\ stage = { }

SpecLoad == InitLoad /\ [][NextOnce]_vars

\* a day in the middle of a month and the first day of a month
StageTodays == { MainToday, << 2024, 3, 1 >> }

\* load_source_data, over the stages, the retention windows and the
\* partitions whose removal fails (at most one)
InitStage ==
    /\ InitOneRecord
    /\ today \in StageTodays
    /\ columns = MainColumns
    /\ datetime_columns = MainDatetimeColumns
    /\ days_to_stage \in 0..MaxAge
    /\ stage \in SUBSET Partitions(today)
    /\ remove_fails \in { { } } \cup { { p } : p \in Partitions(today) }

SpecStage == InitStage /\ [][NextOnce]_vars

\* a run and its repetition on unchanged source data
InitRerun ==
    /\ InitProcess
    /\ today = MainToday
    /\ period \in MainPeriods
    /\ num_periods = 1
    /\ page_size \in 1..MaxSmallPage
    /\ source \in Sources
    /\ provider_ok = TRUE
    /\ csv_exists = FALSE
    /\ \E w \in InitWarehouses :
         /\ containers = w.containers
         /\ table_exists = w.table_exists
         /\ table = w.table

NextRerun ==
    \/ NextOnce
    \/ Rerun

SpecRerun == InitRerun /\ [][NextRerun]_vars

\* runs that follow one another while new records arrive at the provider.
\* The table starts with one row: transform_call_log needs a watermark.
InitArrive ==
    /\ InitProcess
    /\ today = MainToday
    /\ period = "day"
    /\ num_periods = 1
    /\ page_size \in 1..MaxSmallPage
    /\ source \in Sources
    /\ provider_ok = TRUE
    /\ csv_exists = FALSE
    /\ containers = TRUE
    /\ table_exists = TRUE
    /\ table = SetToBag({ 1 })

\* the scheduler starts the job again (Engine.py lines 11-23) after a call
\* of the window has been added to the provider's call log; the window and
\* the configuration are what they were
NextRunArrived ==
    /\ pc \in { "done", "terminated" }
    /\ Len(source) < MaxArrived
    /\ \E t \in Times : source' = Append(source, t)
    /\ pc' = "get_date_range"
    /\ ProcessMemoryGone
    /\ handlers_open' = TRUE
    /\ UNCHANGED << today, period, num_periods, page_size, provider_ok, whVars,
                    csv_exists, columns, datetime_columns, stage,
                    days_to_stage, remove_fails, rerun_of >>

NextArrive ==
    \/ NextOnce
    \/ NextRunArrived

SpecArrive == InitArrive /\ [][NextArrive]_vars

----------------------------------------------------------------------------
(* The claims.                                                             *)

\* the positions of the script after transform_call_log has returned
AfterTransform == { "load_table", "load_source_data", "load_log", "close_log", "done" }

\* the positions of the script after load_table has returned
AfterLoad == { "load_source_data", "load_log", "close_log", "done" }

\* C1: every row a run appends to the destination table has a timestamp
\* strictly greater than every timestamp that was in the table when the run
\* read its watermark, and what the run adds to that table is exactly the
\* rows it appended: no row loaded before is appended again.
C1_AppendedAboveWatermark ==
    /\ \A i \in 1..Len(appended) :
         \A x \in BagToSet(table_at_read) : appended[i] > x
    /\ pc \in AfterLoad => table = table_at_read (+) SeqToBag(appended)

\* a run has appended rows to a table that an earlier run had already grown
C1_Witness ==
    /\ pc = "load_source_data"
    /\ Len(appended) >= 1
    /\ Cardinality(BagToSet(table_at_read)) >= 2

RECURSIVE KeepAbove(_, _)
\* the rows of df above wm, in their order
KeepAbove(df, wm) ==
    IF df = << >> THEN << >>
    ELSE IF Head(df) <= wm THEN KeepAbove(Tail(df), wm)
    ELSE << Head(df) >> \o KeepAbove(Tail(df), wm)

\* C2: transform_call_log keeps exactly the rows whose timestamp is
\* strictly greater than the watermark (the largest timestamp of the table),
\* in their original order: rows at or below the watermark are dropped.
\* Timestamps 1, 2, 3 with watermark 2 yield 3.
C2_FilterStrictlyAbove ==
    /\ pc \in AfterTransform =>
         /\ max_datetime # << >>
         /\ \A x \in BagToSet(table_at_read) : x <= max_datetime[1]
         /\ max_datetime[1] \in BagToSet(table_at_read)
         /\ call_df = KeepAbove(extracted_data, max_datetime[1])
    /\ transform_filter(<< 1, 2, 3 >>, 2) = << 3 >>

\* the filter dropped a row at the watermark and a row below it, and kept one
C2_Witness ==
    /\ pc = "load_table"
    /\ \E i, j \in 1..Len(extracted_data) :
         /\ extracted_data[i] = max_datetime[1]
         /\ extracted_data[j] > max_datetime[1]
    /\ Len(call_df) >= 1
    /\ Len(call_df) < Len(extracted_data)

\* the k-th of the pages the provider cuts src into
ProviderPage(src, ps, k) ==
    [i \in 1..(IF k * ps <= Len(src) THEN ps ELSE Len(src) - (k - 1) * ps)
       |-> src[(k - 1) * ps + i]]

\* C3: when get_call_logs has left its loop for a window with
\* total_records >= 1, the batches it accumulated are the provider's pages
\* 1..pages of the window, each once and in order, and together they are the
\* records of the window.
C3_PagesOnceInOrder ==
    (pc \in { "assemble", "summary" } /\ records >= 1) =>
        /\ Len(log_dicts) = pages
        /\ pages = ProviderPages(source, page_size)
        /\ \A k \in 1..pages : log_dicts[k] = ProviderPage(source, page_size, k)
        /\ served = [k \in 1..pages |-> k]
        /\ Flatten(log_dicts) = source
        /\ pc = "summary" => extracted_data = source

\* get_call_logs has walked a window of at least three pages
C3_Witness ==
    /\ pc = "assemble"
    /\ records >= 1
    /\ pages >= 3
    /\ Len(log_dicts) = pages

\* C4: for total_records >= 1 and page_size in 1..300 the page count is
\* ceil(total_records / page_size): the least number of pages of page_size
\* records that hold them all, which is records // page_size, plus 1 exactly
\* when records % page_size is not 0 (250/100 gives 3, 300/100 gives 3).
C4_PageCountIsCeiling ==
    /\ pc = "page_count_done" =>
         /\ pages * page_size >= records
         /\ (pages - 1) * page_size < records
         /\ pages = (records \div page_size)
                      + (IF records % page_size # 0 THEN 1 ELSE 0)
    /\ PageCount(250, 100) = 3
    /\ PageCount(300, 100) = 3

\* the page count of 250 records in pages of 100 has been computed
C4_Witness ==
    /\ pc = "page_count_done"
    /\ records = 250
    /\ page_size = 100
    /\ pages = 3

\* C5: for total_records >= 1 and a page_size that passed the size check,
\* with a provider that returns a continuation token on every page but the
\* last, the loop of get_call_logs ends, and it ends when the page counter
\* equals the page count: while it runs the counter is below the page count,
\* and when it has ended exactly pages requests were made.
C5_LoopEndsAtPageCount ==
    /\ [](records >= 1 =>
            /\ Len(served) = counter
            /\ counter <= pages
            /\ pc = "fetch" => counter < pages
            /\ pc = "assemble" => counter = pages)
    /\ (pc = "fetch" /\ provider_ok /\ Len(source) >= 1)
         ~> (pc = "assemble" /\ counter = pages /\ Len(served) = pages)

\* the loop has ended after four or more requests to an honest provider
C5_Witness ==
    /\ pc = "assemble"
    /\ provider_ok
    /\ counter >= 4
    /\ counter = pages
    /\ Len(served) = pages

\* C6: a response before the expected last page that has no
\* next_page_token ends get_call_logs with a KeyError on its way to the
\* process-wide handler: no request follows that response (the pages served
\* are 1..n, the first page is not asked for again) and no record table is
\* returned.
C6_MissingTokenIsFatal ==
    missing_at >= 1 =>
        /\ pc \in { "excepthook", "terminated" }
        /\ exc = "KeyError"
        /\ counter = missing_at
        /\ missing_at < pages
        /\ served = [k \in 1..missing_at |-> k]
        /\ extracted_data = << >>
        /\ ~has_columns

\* the second response of a window came without a token and the run is over
C6_Witness ==
    /\ missing_at = 2
    /\ pc = "terminated"
    /\ exc = "KeyError"

\* C7: when the first response reports total_records = 0, extraction stops
\* after that one request, with an empty result and without an exception:
\* extract_data returns the empty table and the run goes on.
C7_EmptyWindowNotFatal ==
    (counter >= 1 /\ records = 0) =>
        /\ Len(served) = 1
        /\ extracted_data = << >>
        /\ exc = ""
        /\ pc \notin { "excepthook", "terminated" }

\* C8: every request of get_call_logs is dispatched through
\* limited_request_get, none is dropped, and no more than 5 requests are
\* dispatched within any window of one second: a call over the ceiling is
\* held back and dispatched later.
C8_AtMostFivePerSecond ==
    /\ \A i \in 1..Len(dispatched) :
         Cardinality({ j \in 1..Len(dispatched) :
                         /\ dispatched[j] >= dispatched[i]
                         /\ dispatched[j] < dispatched[i] + TicksPerSecond }) <= 5
    /\ \A i \in 1..Len(dispatched) :
         \A j \in i..Len(dispatched) : dispatched[i] <= dispatched[j]
    /\ pc \in { "fetch", "assemble" } =>
         /\ Len(dispatched) = counter
         /\ Len(dispatched) = Len(served)
    /\ blocked <= Len(dispatched)

\* the limiter has held a call back, and that call was dispatched
C8_Witness ==
    /\ pc = "assemble"
    /\ blocked >= 1
    /\ Len(dispatched) >= 6
    /\ Len(dispatched) = counter

\* C9: with page_size above 300 get_call_logs raises a ValueError before
\* any request is sent: no request has been dispatched when it is raised.
C9_OversizeRejectedBeforeRequest ==
    (page_size > 300 /\ token_sent) =>
        /\ pc \in { "excepthook", "terminated" }
        /\ exc = "ValueError"
        /\ served = << >>
        /\ dispatched = << >>
        /\ counter = 0

\* get_call_logs has rejected a page_size above 300
C9_Witness ==
    /\ pc = "excepthook"
    /\ exc = "ValueError"
    /\ token_sent
    /\ page_size > 300

\* the last day of the month before the month of dt
EndOfPreviousMonth(dt) ==
    LET y == IF dt[2] = 1 THEN dt[1] - 1 ELSE dt[1]
        m == IF dt[2] = 1 THEN 12 ELSE dt[2] - 1
    IN  << y, m,
           IF m = 2
           THEN (IF y % 4 = 0 /\ (y % 100 # 0 \/ y % 400 = 0) THEN 29 ELSE 28)
           ELSE IF m \in { 4, 6, 9, 11 } THEN 30 ELSE 31 >>

RECURSIVE DaysBack(_, _)
\* the date k days before dt, walking the calendar back month by month
DaysBack(dt, k) ==
    IF k < dt[3] THEN << dt[1], dt[2], dt[3] - k >>
    ELSE DaysBack(EndOfPreviousMonth(dt), k - dt[3])

\* the start date the rolling period asks for
ExpectedStart(td, per, n) ==
    IF per = "day" THEN DaysBack(td, n - 1)
    ELSE IF per = "month"
    THEN LET idx == td[1] * 12 + (td[2] - 1) - (n - 1)
         IN  << idx \div 12, (idx % 12) + 1, 1 >>
    ELSE << td[1] - (n - 1), 1, 1 >>

\* C10 as stated: for every num_periods >= 1 get_date_range derives the
\* start date from today: today minus (num_periods - 1) days, the first day
\* of the month (num_periods - 1) months back, or January 1 of the year
\* (num_periods - 1) years back.
C10_StartDateForEveryNumPeriods ==
    (pc # "get_date_range" /\ period \in { "day", "month", "year" }) =>
        LET e == ExpectedStart(today, period, num_periods)
        IN  start_date = << e[1] * 10000 + e[2] * 100 + e[3] >>

\* C10, amended: the same, for every num_periods >= 1 whose start date is
\* not before year 1, the first year a datetime can hold; beyond it
\* get_date_range raises (ValueError or OverflowError) and returns no start
\* date.  With num_periods = 1 the start is today, the first of the current
\* month, or January 1 of the current year.
C10_StartDateWithinCalendar ==
    (pc # "get_date_range" /\ period \in { "day", "month", "year" }) =>
        LET e == ExpectedStart(today, period, num_periods)
        IN  /\ e[1] >= 1 =>
                 /\ pc = "get_call_logs"
                 /\ start_date = << e[1] * 10000 + e[2] * 100 + e[3] >>
            /\ e[1] < 1 =>
                 /\ pc = "excepthook"
                 /\ exc \in { "ValueError", "OverflowError" }
                 /\ start_date = << >>
            /\ num_periods = 1 =>
                 start_date = << today[1] * 10000
                                   + (IF period = "year" THEN 1 ELSE today[2]) * 100
                                   + (IF period = "day" THEN today[3] ELSE 1) >>

\* period = month, num_periods = 2 on 2024-03-31 starts at 2024-02-01
C10_Witness ==
    /\ pc = "get_call_logs"
    /\ today = << 2024, 3, 31 >>
    /\ period = "month"
    /\ num_periods = 2
    /\ start_date = << 20240201 >>

\* the positions of the script after an exception has left it
Aborted == { "excepthook", "terminated" }

\* C11: with a period that is not day, month or year get_date_range raises
\* a ValueError and the run aborts: no token has been generated, no request
\* sent to the provider, no artifact written and no statement sent to the
\* warehouse.
C11_BadPeriodAbortsBeforeAnyEffect ==
    (period \notin { "day", "month", "year" } /\ pc # "get_date_range") =>
        /\ pc \in Aborted
        /\ exc = "ValueError"
        /\ start_date = << >>
        /\ ~token_sent
        /\ served = << >>
        /\ dispatched = << >>
        /\ ops = << >>
        /\ open_conns = 0

\* a run configured with period = week has ended in the handler
C11_Witness ==
    /\ pc = "terminated"
    /\ period = "week"
    /\ exc = "ValueError"
    /\ ops = << >>

\* C12: if the destination table does not exist when the Transformer
\* queries the watermark, the run ends in a fatal error: the step out of
\* transform_call_log goes to the handler with a ProgrammingError and leaves
\* the warehouse as it was; transform_call_log returns no table, and no
\* statement of load_table, load_source_data or load_log is sent in that run.
C12_MissingTableIsFatal ==
    /\ []((~table_exists /\ \E i \in 1..Len(ops) : ops[i] = "T.connect") =>
            /\ pc \in Aborted
            /\ exc = "ProgrammingError"
            /\ max_datetime = << >>
            /\ call_df = << >>
            /\ appended = << >>
            /\ table = EmptyBag
            /\ \A i \in 1..Len(ops) :
                 ops[i] \in { "to_csv", "T.connect", "T.use", "T.select_max" })
    /\ [][(pc = "transform" /\ ~table_exists) =>
            /\ pc' = "excepthook"
            /\ exc' = "ProgrammingError"
            /\ UNCHANGED << whVars, stage, call_df, appended >>]_vars

\* the watermark query has failed on a schema without the table, and the
\* run has ended in the handler
C12_Witness ==
    /\ pc = "terminated"
    /\ containers
    /\ ~table_exists
    /\ exc = "ProgrammingError"
    /\ ops = << "to_csv", "T.connect", "T.use", "T.select_max" >>

\* whether the run has sent the statement op
Sent(op) == \E i \in 1..Len(ops) : ops[i] = op

\* C13: when write_pandas reports failure in load_table, the failure is
\* logged at error level (once) and the run is not aborted: the connection
\* is closed right after the append, no exception is raised, and the script
\* goes on to load_source_data and load_log, whose statements are sent.
C13_FailedLoadDoesNotAbort ==
    Sent("L.write_pandas -> False") =>
        /\ Cardinality({ i \in 1..Len(log) : log[i] = << "load_failed", "" >> }) = 1
        /\ \A i \in 1..Len(ops) :
             ops[i] = "L.write_pandas -> False" =>
                 i < Len(ops) /\ ops[i + 1] = "L.close"
        /\ exc = ""
        /\ pc \in AfterLoad
        /\ appended = << >>
        /\ pc \in { "load_log", "close_log", "done" } =>
             Sent("S.put") /\ Sent("S.close")
        /\ pc \in { "close_log", "done" } => Sent("G.write_pandas")

\* a run whose load failed has reached its end through load_source_data and
\* load_log
C13_Witness ==
    /\ pc = "done"
    /\ Sent("L.write_pandas -> False")
    /\ Sent("S.put")
    /\ Sent("G.write_pandas")
    /\ Len(call_df) >= 1

\* the columns a CREATE TABLE statement defines, each a name and a type
StatementColumns(stmt) ==
    [k \in 1..((Len(stmt) - 3) \div 3) |-> << stmt[3 * k + 1], stmt[3 * k + 2] >>]

\* the destination type of a column: the timestamp type for a column
\* designated as a datetime stored as text, else the type of its dtype
DestinationType(c, dt_cols) ==
    IF \E i \in 1..Len(dt_cols) : Upper[dt_cols[i]] = c.name
    THEN "TIMESTAMP_NTZ(9)"
    ELSE CASE c.dtype = "int64" -> "integer"
           [] c.dtype = "object" -> "string"
           [] c.dtype = "datetime64[ns]" -> "TIMESTAMP_NTZ(9)"
           [] OTHER -> "unsupported"

\* C14: for a record table whose column types are all in the lookup table,
\* get_create_string returns a CREATE TABLE IF NOT EXISTS statement that
\* names exactly the columns of the table, each once, each with the
\* destination type of its observed type (integer, string, the nanosecond
\* timestamp type without timezone), and the timestamp type for the columns
\* designated as datetimes stored as text.
C14_CreateStatementMatchesTable ==
    create_str # << >> =>
        /\ create_str[1] = "CREATE TABLE IF NOT EXISTS"
        /\ create_str[3] = "("
        /\ create_str[Len(create_str)] = ")"
        /\ StatementColumns(create_str) =
             [k \in 1..Len(columns) |->
                << columns[k].name, DestinationType(columns[k], datetime_columns) >>]

\* C15: if a column of the record table has a type with no entry in the
\* lookup table, get_create_string raises (a KeyError) and the run ends in
\* the handler: load_table has sent no CREATE TABLE statement and appended
\* no row.
C15_UnknownTypeIsFatal ==
    ((\E i \in 1..Len(columns) : columns[i].dtype \notin DOMAIN dtype_conversions)
     /\ Sent("L.connect")) =>
        /\ pc \in Aborted
        /\ exc = "KeyError"
        /\ create_str = << >>
        /\ ~Sent("L.create_table")
        /\ ~Sent("L.write_pandas -> True")
        /\ ~Sent("L.write_pandas -> False")
        /\ appended = << >>
        /\ table = table_at_read

\* load_table has failed on a table whose second column is a bool column
C15_Witness ==
    /\ pc = "terminated"
    /\ exc = "KeyError"
    /\ Len(columns) = 2
    /\ columns[1].dtype = "int64"
    /\ columns[2].dtype = "bool"
    /\ Sent("L.use")

\* the partitions the run has issued a remove command for
Removed == { removes[i] : i \in 1..Len(removes) }

\* a partition dated before today minus days_to_stage
Expired(p) == ToOrdinal(Strptime(p)) < ToOrdinal(today) - days_to_stage

\* the positions of the script after load_source_data has returned
AfterStaging == { "load_log", "close_log", "done" }

\* C16: when load_source_data has returned, it has removed exactly the
\* staged partitions dated before today minus days_to_stage: every
\* partition it removed is that old, none that old is left, and every
\* partition dated today minus days_to_stage or later, the one uploaded
\* today among them, is still in the stage.
C16_PrunesExactlyTheOlder ==
    pc \in AfterStaging =>
        /\ \A p \in Removed : Expired(p)
        /\ \A p \in stage : ~Expired(p)
        /\ Strftime(today) \in stage

\* C17: pruning is best-effort per partition: when load_source_data has
\* listed the stage, a remove command is issued for every partition dated
\* before today minus days_to_stage, also when the command fails for one of
\* them.
C17_PruningIsBestEffort ==
    Sent("S.list") =>
        \A p \in stage \cup Removed : Expired(p) => p \in Removed

\* the records the handler has written to the log
ExceptionRecords == { i \in 1..Len(log) : log[i][1] = "exception" }

\* C18: whatever step raises, the process-wide handler runs once for the
\* exception: it writes one error record carrying the exception, then removes
\* and closes the log handlers; from the moment the exception has left the
\* script no pipeline step runs or is retried, and the process ends.
C18_HandlerRunsOnceThenNothing ==
    /\ [](/\ Cardinality(ExceptionRecords) <= 1
          /\ pc = "excepthook" =>
               /\ exc # ""
               /\ ExceptionRecords = { }
               /\ handlers_open
          /\ pc = "terminated" =>
               /\ exc # ""
               /\ ExceptionRecords = { Len(log) }
               /\ log[Len(log)] = << "exception", exc >>
               /\ ~handlers_open
          /\ pc \notin Aborted \cup { "done", "exited" } =>
               ExceptionRecords = { } /\ handlers_open)
    /\ [][/\ pc = "excepthook" =>
               /\ pc' = "terminated"
               /\ UNCHANGED << exc, ops, whVars, stage, csv_exists, served >>
          /\ pc = "terminated" =>
               /\ pc' = "exited"
               /\ UNCHANGED << whVars, stage, csv_exists >>]_vars

\* the handler has logged the TypeError that left transform_call_log, and
\* closed the log
C18_Witness ==
    /\ pc = "terminated"
    /\ exc = "TypeError"
    /\ log = << << "exception", "TypeError" >> >>
    /\ Sent("T.select_max")
    /\ ~handlers_open

\* C19: a run on the unchanged source data of a run whose load succeeded
\* changes nothing in the destination table: it does not fail, its
\* Transformer output is empty, load_table inserts no row and reports
\* success (no load failure is logged), and the table stays what it was when
\* the run read its watermark.
C19_RerunIsIdempotent ==
    rerun_of = "loaded" =>
        /\ pc \notin Aborted
        /\ exc = ""
        /\ pc \in AfterTransform => call_df = << >> /\ table = table_at_read
        /\ pc \in AfterLoad =>
             /\ appended = << >>
             /\ Sent("L.write_pandas -> True")
             /\ ~Sent("L.write_pandas -> False")
             /\ \A i \in 1..Len(log) : log[i][1] # "load_failed"

\* the second run has ended on a table to which the first run had appended
\* the two records of the source
C19_Witness ==
    /\ rerun_of = "loaded"
    /\ pc = "done"
    /\ Len(source) = 2
    /\ table = SetToBag({ 1 }) (+) SeqToBag(source)
    /\ Sent("L.write_pandas -> True")

\* the statements on the destination table or on the stage
TableOrStageOps ==
    { "T.select_max", "L.create_table", "L.write_pandas -> True",
      "L.write_pandas -> False", "S.create_stage", "S.put", "S.list",
      "S.remove" }

\* C20: in every run the create-if-absent statements for the warehouse,
\* database and schema come before any statement on the destination table or
\* the stage: each such statement of the run's trace is preceded by one that
\* ensures the containers.
C20_ContainersEnsuredFirst ==
    \A i \in 1..Len(ops) :
        ops[i] \in TableOrStageOps =>
            \E j \in 1..(i - 1) : ops[j] \in { "L.ensure", "G.ensure" }

\* the positions of the script between two calls of component methods that
\* talk to the warehouse, and at the end of the run
BetweenWarehouseCalls ==
    { "load_table", "load_source_data", "load_log", "close_log", "done" }

\* C21: each component method that talks to the warehouse
\* (get_max_snowflake_time, load_table, load_source_data, load_log) has
\* closed the connection it opened when it returns: between two method calls
\* and at the end of a run the number of open warehouse connections is 0.
C21_NoConnectionLeftOpen ==
    pc \in BetweenWarehouseCalls => open_conns = 0

\* how often the run has sent op
Count(op) == Cardinality({ i \in 1..Len(ops) : ops[i] = op })

\* C22: in every successful run the local CSV artifact is written once and
\* is deleted from the local disk at the end of the run, after the run log
\* has been loaded into the warehouse: when the script has ended normally,
\* the artifact was written once, the log was loaded, and the artifact is no
\* longer on disk.
C22_ArtifactDeletedAtEnd ==
    pc = "done" =>
        /\ Count("to_csv") = 1
        /\ Sent("G.write_pandas")
        /\ ~csv_exists

\* the step of the run an entry of the trace belongs to: 2 persist the
\* artifact, 3 read the watermark and filter, 4 ensure the table and append,
\* 5 stage and prune, 6 flush the run log, 7 the end of the script
Rank(op) ==
    CASE op = "to_csv" -> 2
      [] op \in { "T.connect", "T.use", "T.select_max" } -> 3
      [] op \in { "L.connect", "L.ensure", "L.use", "L.create_table",
                  "L.write_pandas -> True", "L.write_pandas -> False",
                  "L.close" } -> 4
      [] op \in { "S.connect", "S.use", "S.create_stage", "S.put", "S.list",
                  "S.remove", "S.close" } -> 5
      [] op \in { "G.connect", "G.ensure", "G.use", "G.write_pandas",
                  "G.close" } -> 6
      [] OTHER -> 7

\* the positions of the script inside extract_data
InExtract == { "get_date_range", "get_call_logs", "fetch", "assemble", "summary" }

\* C23: within one run the steps occur in the order extract, persist the
\* artifact, read the watermark and filter, ensure the table and append,
\* stage and prune, flush the run log: the trace of the run never goes back
\* to an earlier step; a step has started only if the previous one returned
\* without error (the artifact is written once after the extraction
\* returned its table, the Transformer returned a watermark, load_table and
\* load_source_data closed their connections); the watermark is read at most
\* once, and exactly once before the append.
C23_StepsInOrder ==
    /\ \A i, j \in 1..Len(ops) : i < j => Rank(ops[i]) <= Rank(ops[j])
    /\ pc \in InExtract => ops = << >>
    /\ Sent("to_csv") =>
         /\ Count("to_csv") = 1
         /\ ops[1] = "to_csv"
         /\ served # << >>
         /\ has_columns
         /\ extracted_data = Flatten(log_dicts)
    /\ Sent("T.connect") => Sent("to_csv") /\ Count("T.connect") = 1
    /\ Count("T.select_max") <= 1
    /\ Sent("L.connect") =>
         /\ Count("T.select_max") = 1
         /\ max_datetime # << >>
         /\ Count("L.connect") = 1
    /\ \A i \in 1..Len(ops) :
         ops[i] \in { "L.write_pandas -> True", "L.write_pandas -> False" } =>
             \E j \in 1..(i - 1) : ops[j] = "T.select_max"
    /\ Sent("S.connect") => Count("L.close") = 1 /\ Count("S.connect") = 1
    /\ Sent("G.connect") => Count("S.close") = 1 /\ Count("G.connect") = 1
    /\ pc \notin Aborted => exc = ""
    /\ pc = "done" =>
         /\ Count("G.close") = 1
         /\ ops[Len(ops)] = "os.remove ETLLog.log"

\* a run that appended a row has gone through every step, to its end
C23_Witness ==
    /\ pc = "done"
    /\ Len(appended) >= 1
    /\ ops = << "to_csv", "T.connect", "T.use", "T.select_max", "L.connect",
                "L.ensure", "L.use", "L.create_table", "L.write_pandas -> True",
                "L.close", "S.connect", "S.use", "S.create_stage", "S.put",
                "S.list", "S.close", "G.connect", "G.ensure", "G.use",
                "G.write_pandas", "G.close", "os.remove ETLLog.log" >>

\* C24: whenever the watermark filter drops an extracted row (one at or
\* below the watermark), that row is already in the destination table; and
\* when a run that reported a successful load has ended, every record of the
\* extracted window is in the destination table.
C24_DroppedRowsAlreadyLoaded ==
    /\ pc \in AfterTransform =>
         \A i \in 1..Len(extracted_data) :
             extracted_data[i] <= max_datetime[1] =>
                 extracted_data[i] \in BagToSet(table_at_read)
    /\ (pc = "done" /\ Sent("L.write_pandas -> True")) =>
         \A i \in 1..Len(source) : source[i] \in BagToSet(table)

C26_CounterWithinPageCount ==
    (~page_size_too_big(page_size) /\ counter >= 1 /\ records >= 1) =>
        counter <= pages

====
